---- MODULE Spec2Model ----
(***************************************************************************)
(* Model of the chat state machine of GenzAI: the React state of the App   *)
(* component (messages, input, isLoading, attachment), the asynchronous    *)
(* handleSend with its suspension points (the await on the stream open and *)
(* each for-await iteration), startNewChat, and the request construction   *)
(* of sendMessageToGeminiStream.                                           *)
(*                                                                         *)
(* Strings are sequences of one-character strings.  Timestamps and the     *)
(* model selection are left out: no modelled operation reads them.         *)
(***************************************************************************)
EXTENDS Integers, Sequences, FiniteSets, TLC

\* ---------------------------------------------------------------- bounds
MaxIds == 2        \* number of distinct values generateId can return
MaxMsgs == 5       \* longest Conversation Store explored
MaxChunks == 1     \* most chunks one stream delivers

\* ------------------------------------------------------------ vocabulary
Ids == 1..MaxIds

\* what the user can put in the input box
Inputs == { <<" ">>, <<" ", "a", " ">> }

\* chunk.text values the remote stream can deliver (empty text included)
ChunkTexts == { <<>>, <<"a">>, <<"b">> }

\* the image the file picker can stage
Attachments == { "img" }

\* attachment state null / Message.attachment undefined
NoAttachment == "null"

ERROR_TEXT == << "I'm having trouble connecting right now. Please try again." >>

VARIABLES
    messages,     \* useState<Message[]>
    input,        \* useState('')
    isLoading,    \* useState(false)
    attachment,   \* useState<...|null>(null)
    pc,           \* position of the pending handleSend: idle / opening / streaming
    call,         \* the locals the pending handleSend closes over
    lastOp        \* the handler that ran last and how it left

vars == <<messages, input, isLoading, attachment, pc, call, lastOp>>

\* ------------------------------------------------------------- functions
IsSpace(c) == c = " "

RECURSIVE TrimStart(_)
TrimStart(s) ==
    IF s # <<>> /\ IsSpace(Head(s)) THEN TrimStart(Tail(s)) ELSE s

RECURSIVE TrimEnd(_)
TrimEnd(s) ==
    IF s # <<>> /\ IsSpace(s[Len(s)])
    THEN TrimEnd(SubSeq(s, 1, Len(s) - 1))
    ELSE s

\* String.prototype.trim
trim(s) == TrimEnd(TrimStart(s))

\* Math.random().toString(36).substr(2, 9): any value of the id space,
\* drawn independently of every earlier draw
generateId == Ids

Message(id, role, text, att) ==
    [id |-> id, role |-> role, text |-> text, attachment |-> att]

\* the parts handleSend builds for one historical message
HistoryParts(m) ==
    (IF m.attachment # NoAttachment
        THEN << [inlineData |-> m.attachment] >> ELSE << >>)
    \o (IF m.text # <<>> THEN << [text |-> m.text] >> ELSE << >>)

\* variant: turns without parts filtered out of the history
History_SkipsEmpty(msgs) ==
    SelectSeq([i \in 1..Len(msgs) |->
                  [role |-> msgs[i].role, parts |-> HistoryParts(msgs[i])]],
              LAMBDA h : h.parts # <<>>)

\* messages.map(m => ({role, parts}))
History(msgs) ==
    [i \in 1..Len(msgs) |->
        [role |-> msgs[i].role, parts |-> HistoryParts(msgs[i])]]

\* variant: the text part pushed before the image part
MessageContent_TextFirst(prompt, att) ==
    IF att # NoAttachment
    THEN [kind |-> "parts",
          parts |-> << [text |-> prompt], [inlineData |-> att] >>,
          prompt |-> <<>>]
    ELSE [kind |-> "string", parts |-> <<>>, prompt |-> prompt]

\* messageContent of sendMessageToGeminiStream
MessageContent(prompt, att) ==
    IF att # NoAttachment
    THEN [kind |-> "parts",
          parts |-> << [inlineData |-> att], [text |-> prompt] >>,
          prompt |-> <<>>]
    ELSE [kind |-> "string", parts |-> <<>>, prompt |-> prompt]

\* the request sendMessageToGeminiStream hands to the remote service
Request(prompt, history, att) ==
    [history |-> history, message |-> MessageContent(prompt, att)]

\* prev.map(msg => msg.id === botMsgId ? {...msg, text: msg.text + chunkText} : msg)
ApplyChunk(msgs, botMsgId, chunkText) ==
    [i \in 1..Len(msgs) |->
        IF msgs[i].id = botMsgId
        THEN [msgs[i] EXCEPT !.text = msgs[i].text \o chunkText]
        ELSE msgs[i]]

NoCall ==
    [botMsgId |-> 0,
     userMsg |-> Message(0, "user", <<>>, NoAttachment),
     base |-> <<>>,
     request |-> Request(<<>>, <<>>, NoAttachment),
     chunks |-> <<>>,
     cleared |-> FALSE]

\* ------------------------------------------------------------------ init
Init ==
    /\ messages = <<>>
    /\ input = <<>>
    /\ isLoading = FALSE
    /\ attachment = NoAttachment
    /\ pc = "idle"
    /\ call = NoCall
    /\ lastOp = "init"

\* --------------------------------------------------------------- actions
\* onChange of the textarea / a suggestion click
SetInput ==
    /\ \E s \in Inputs : input' = s
    /\ lastOp' = "ui"
    /\ UNCHANGED <<messages, isLoading, attachment, pc, call>>

\* reader.onload of handleFileSelect
handleFileSelect ==
    /\ \E a \in Attachments : attachment' = a
    /\ lastOp' = "ui"
    /\ UNCHANGED <<messages, input, isLoading, pc, call>>

removeAttachment ==
    /\ attachment' = NoAttachment
    /\ lastOp' = "ui"
    /\ UNCHANGED <<messages, input, isLoading, pc, call>>

\* variant: the early return without the isLoading test
SendRejected_NoBusyCheck ==
    trim(input) = <<>> /\ attachment = NoAttachment

\* the early return of handleSend
SendRejected ==
    (trim(input) = <<>> /\ attachment = NoAttachment) \/ isLoading

\* handleSend up to its first suspension point, the await on the stream open
handleSend ==
    IF SendRejected
    THEN /\ lastOp' = "sendRejected"
         /\ UNCHANGED <<messages, input, isLoading, attachment, pc, call>>
    ELSE /\ Len(messages) + 3 <= MaxMsgs
         /\ \E uid \in generateId, bid \in generateId :
              LET userText == trim(input)
                  currentAttachment == attachment
                  userMsg == Message(uid, "user", userText, currentAttachment)
                  botMsg == Message(bid, "model", <<>>, NoAttachment)
              IN /\ messages' = messages \o <<userMsg, botMsg>>
                 /\ call' = [botMsgId |-> bid,
                             userMsg |-> userMsg,
                             base |-> messages,
                             request |-> Request(userText, History(messages),
                                                 currentAttachment),
                             chunks |-> <<>>,
                             cleared |-> FALSE]
         /\ input' = <<>>
         /\ attachment' = NoAttachment
         /\ isLoading' = TRUE
         /\ pc' = "opening"
         /\ lastOp' = "send"

\* variant: the failure notice written into the last message in place
CatchFinally_InPlace(op) ==
    /\ messages' = IF messages = <<>>
                   THEN messages
                   ELSE [messages EXCEPT ![Len(messages)].text = ERROR_TEXT]
    /\ isLoading' = FALSE
    /\ pc' = "idle"
    /\ call' = NoCall
    /\ lastOp' = op
    /\ UNCHANGED <<input, attachment>>

\* variant: the failure path puts the sent attachment back for a retry
CatchFinally_RestoresAttachment(op) ==
    /\ \E eid \in generateId :
         messages' = Append(messages, Message(eid, "model", ERROR_TEXT, NoAttachment))
    /\ isLoading' = FALSE
    /\ attachment' = call.userMsg.attachment
    /\ pc' = "idle"
    /\ call' = NoCall
    /\ lastOp' = op
    /\ UNCHANGED input

\* the catch and finally blocks of handleSend
CatchFinally(op) ==
    /\ \E eid \in generateId :
         messages' = Append(messages, Message(eid, "model", ERROR_TEXT, NoAttachment))
    /\ isLoading' = FALSE
    /\ pc' = "idle"
    /\ call' = NoCall
    /\ lastOp' = op
    /\ UNCHANGED <<input, attachment>>

\* variant: the loading state dropped as soon as the stream is open
OpenOk_ReleasesBusy ==
    /\ pc = "opening"
    /\ pc' = "streaming"
    /\ isLoading' = FALSE
    /\ lastOp' = "open"
    /\ UNCHANGED <<messages, input, attachment, call>>

\* await sendMessageToGeminiStream(...) resolves with the stream
OpenOk ==
    /\ pc = "opening"
    /\ pc' = "streaming"
    /\ lastOp' = "open"
    /\ UNCHANGED <<messages, input, isLoading, attachment, call>>

\* await sendMessageToGeminiStream(...) rejects
OpenFail ==
    /\ pc = "opening"
    /\ CatchFinally("openFail")

\* one iteration of the for-await loop
Chunk ==
    /\ pc = "streaming"
    /\ Len(call.chunks) < MaxChunks
    /\ \E chunkText \in ChunkTexts :
         /\ messages' = IF chunkText # <<>>
                        THEN ApplyChunk(messages, call.botMsgId, chunkText)
                        ELSE messages
         /\ call' = [call EXCEPT !.chunks = Append(@, chunkText)]
    /\ lastOp' = "chunk"
    /\ UNCHANGED <<input, isLoading, attachment, pc>>

\* variant: isLoading released in the catch path only, not in a finally
StreamDone_NoRelease ==
    /\ pc = "streaming"
    /\ pc' = "idle"
    /\ call' = NoCall
    /\ lastOp' = "done"
    /\ UNCHANGED <<messages, input, attachment, isLoading>>

\* the stream signals completion: the loop ends, finally runs
StreamDone ==
    /\ pc = "streaming"
    /\ isLoading' = FALSE
    /\ pc' = "idle"
    /\ call' = NoCall
    /\ lastOp' = "done"
    /\ UNCHANGED <<messages, input, attachment>>

\* the stream raises an error mid-flight
StreamError ==
    /\ pc = "streaming"
    /\ CatchFinally("streamError")

\* variant: the new-chat handler also calls setIsLoading(false)
startNewChat_ResetsBusy ==
    /\ messages' = <<>>
    /\ input' = <<>>
    /\ attachment' = NoAttachment
    /\ isLoading' = FALSE
    /\ call' = IF pc = "idle" THEN call ELSE [call EXCEPT !.cleared = TRUE]
    /\ lastOp' = "newChat"
    /\ UNCHANGED pc

startNewChat ==
    /\ messages' = <<>>
    /\ input' = <<>>
    /\ attachment' = NoAttachment
    /\ call' = IF pc = "idle" THEN call ELSE [call EXCEPT !.cleared = TRUE]
    /\ lastOp' = "newChat"
    /\ UNCHANGED <<isLoading, pc>>

Next ==
    \/ SetInput
    \/ handleFileSelect
    \/ removeAttachment
    \/ handleSend
    \/ OpenOk
    \/ OpenFail
    \/ Chunk
    \/ StreamDone
    \/ StreamError
    \/ startNewChat

Spec == Init /\ [][Next]_vars

\* The remote stream settles: the open resolves or rejects, and an open stream
\* completes or raises an error.
FairSpec ==
    /\ Spec
    /\ WF_vars(OpenOk \/ OpenFail)
    /\ WF_vars(StreamDone \/ StreamError)

\* ---------------------------------------------------------------- helpers
RECURSIVE Concat(_)
Concat(ss) == IF ss = <<>> THEN <<>> ELSE Head(ss) \o Concat(Tail(ss))

IsPrefix(s, t) == Len(s) <= Len(t) /\ SubSeq(t, 1, Len(s)) = s

Sendable == trim(input) # <<>> \/ attachment # NoAttachment

StreamStep == OpenOk \/ OpenFail \/ Chunk \/ StreamDone \/ StreamError

IsImagePart(p) == "inlineData" \in DOMAIN p
IsTextPart(p) == "text" \in DOMAIN p

\* -------------------------------------------------------------------- C1
\* C1: while isLoading is true a handleSend call changes nothing: messages,
\* isLoading, attachment and input keep their values and no request is
\* issued (the pending call and its request stay as they were), whatever
\* the input text and the attachment are.
C1_BusySendIsNoOp ==
    [][(isLoading /\ handleSend)
         => UNCHANGED <<messages, input, isLoading, attachment, pc, call>>]_vars

C1_Witness ==
    /\ lastOp = "sendRejected"
    /\ isLoading
    /\ pc = "streaming"
    /\ trim(input) # <<>>
    /\ attachment # NoAttachment

\* -------------------------------------------------------------------- C2
\* C2: every accepted send eventually releases isLoading, whether the open
\* fails, the stream raises an error or the stream completes; once no send
\* is pending isLoading is false, so a following send with text or an
\* attachment is not rejected.
C2_BusyReleased ==
    /\ (lastOp = "send") ~> (pc = "idle" /\ ~isLoading)
    /\ [][(pc # "idle" /\ pc' = "idle") => ~isLoading']_vars
    /\ [](pc = "idle" /\ Sendable => ~SendRejected)

C2_Witness ==
    /\ lastOp = "send"
    /\ Len(call.base) >= 2
    /\ isLoading

\* -------------------------------------------------------------------- C3
\* C3: when the open fails or the stream raises an error, every message
\* already in the store (the placeholder and its text included) is left as
\* it was, and exactly one assistant message with the fixed failure notice
\* is appended at the end: the length grows by exactly one.
C3_FailureAppendsNotice ==
    [][(OpenFail \/ StreamError) =>
         /\ Len(messages') = Len(messages) + 1
         /\ SubSeq(messages', 1, Len(messages)) = messages
         /\ messages'[Len(messages')].role = "model"
         /\ messages'[Len(messages')].text = ERROR_TEXT]_vars

C3_Witness ==
    /\ lastOp = "streamError"
    /\ Len(messages) >= 3
    /\ messages[Len(messages)].text = ERROR_TEXT
    /\ messages[Len(messages) - 1].role = "model"
    /\ messages[Len(messages) - 1].text = <<"a">>

C5_Original ==
    [][(StreamDone /\ ~call.cleared) =>
         /\ messages' = call.base \o
               << call.userMsg,
                  Message(call.botMsgId, "model", Concat(call.chunks), NoAttachment) >>
         /\ ~isLoading']_vars

\* -------------------------------------------------------------------- C6
\* C6: in every reachable state at most one send is pending (a pending send
\* holds isLoading, which rejects every other send) and at most one
\* assistant message can still receive fragments.
InFlightAssistant ==
    IF pc = "idle"
    THEN {}
    ELSE { i \in DOMAIN messages :
             messages[i].role = "model" /\ messages[i].id = call.botMsgId }

C6_Original ==
    /\ pc # "idle" => isLoading
    /\ Cardinality(InFlightAssistant) <= 1

\* -------------------------------------------------------------------- C7
\* C7: a send with an attachment staged and empty or whitespace-only input
\* is accepted and appends a user message with that attachment and empty
\* text; in the new-turn content of the request every image part comes
\* before every text part.
C7_AttachmentOnlySend ==
    [][(attachment # NoAttachment /\ trim(input) = <<>> /\ ~isLoading /\ handleSend) =>
         /\ lastOp' = "send"
         /\ Len(messages') = Len(messages) + 2
         /\ messages'[Len(messages) + 1].role = "user"
         /\ messages'[Len(messages) + 1].text = <<>>
         /\ messages'[Len(messages) + 1].attachment = attachment
         /\ LET parts == call'.request.message.parts
            IN /\ call'.request.message.kind = "parts"
               /\ \E i \in DOMAIN parts :
                    IsImagePart(parts[i]) /\ parts[i].inlineData = attachment
               /\ \A i, j \in DOMAIN parts :
                    IsImagePart(parts[i]) /\ IsTextPart(parts[j]) => i < j]_vars

C7_Witness ==
    /\ lastOp = "send"
    /\ pc = "opening"
    /\ call.userMsg.text = <<>>
    /\ call.userMsg.attachment # NoAttachment
    /\ call.request.message.kind = "parts"

\* -------------------------------------------------------------------- C8
\* C8: an accepted send leaves attachment unset at once, while the stream
\* is still to be opened, and no later step of that send (open, fragment,
\* completion, failure) changes attachment.
C8_AttachmentClearedOnSend ==
    [][/\ (handleSend /\ ~SendRejected) => (attachment' = NoAttachment /\ pc' = "opening")
       /\ StreamStep => attachment' = attachment]_vars

C8_Witness ==
    /\ lastOp \in {"openFail", "streamError"}
    /\ Len(messages) >= 3
    /\ messages[Len(messages) - 2].attachment # NoAttachment
    /\ attachment = NoAttachment

\* -------------------------------------------------------------------- C9
\* C9: in every reachable state the ids of the messages in the store are
\* pairwise distinct.
C9_Original ==
    \A i, j \in DOMAIN messages : i # j => messages[i].id # messages[j].id

\* ------------------------------------------------------------------- C10
\* C10: a step that changes the store either clears it or keeps every
\* existing message at its position with its id, role and attachment and
\* appends at the end; a user message's text never changes; an assistant
\* message's text only grows, and only if it is the placeholder of the
\* stream that is open.
C10_Original ==
    [][messages' # messages =>
         \/ messages' = <<>>
         \/ /\ Len(messages') >= Len(messages)
            /\ \A i \in DOMAIN messages :
                 /\ messages'[i].id = messages[i].id
                 /\ messages'[i].role = messages[i].role
                 /\ messages'[i].attachment = messages[i].attachment
                 /\ messages[i].role = "user" => messages'[i].text = messages[i].text
                 /\ messages[i].role = "model" =>
                      \/ messages'[i].text = messages[i].text
                      \/ /\ IsPrefix(messages[i].text, messages'[i].text)
                         /\ pc = "streaming"
                         /\ ~call.cleared
                         /\ i = Len(call.base) + 2]_vars

\* ------------------------------------------------------------------- C11
\* C11: the prior-turns context of the request of an accepted send has one
\* entry per message of the store as it was just before the send, in store
\* order, with that message's role, its attachment as image part and its
\* text as text part and nothing else; the new user turn and the
\* placeholder are not in it, and the new turn's text travels only as the
\* message content.
C11_HistoryIsPriorStore ==
    [][(handleSend /\ ~SendRejected) =>
         LET h == call'.request.history
             m == call'.request.message
         IN /\ Len(h) = Len(messages)
            /\ Len(messages') = Len(messages) + 2
            /\ \A i \in DOMAIN messages :
                 /\ h[i].role = messages[i].role
                 /\ \A k \in DOMAIN h[i].parts :
                      \/ /\ IsImagePart(h[i].parts[k])
                         /\ h[i].parts[k].inlineData = messages[i].attachment
                      \/ /\ IsTextPart(h[i].parts[k])
                         /\ h[i].parts[k].text = messages[i].text
                 /\ messages[i].attachment # NoAttachment =>
                      \E k \in DOMAIN h[i].parts : IsImagePart(h[i].parts[k])
                 /\ messages[i].text # <<>> =>
                      \E k \in DOMAIN h[i].parts : IsTextPart(h[i].parts[k])
            /\ \/ m.kind = "string" /\ m.prompt = trim(input)
               \/ /\ m.kind = "parts"
                  /\ \E k \in DOMAIN m.parts :
                       IsTextPart(m.parts[k]) /\ m.parts[k].text = trim(input)]_vars

C11_Witness ==
    /\ lastOp = "send"
    /\ pc = "opening"
    /\ Len(call.base) = 2
    /\ Len(call.request.history) = 2
    /\ call.base[1].attachment # NoAttachment
    /\ call.base[2].text = <<>>
    /\ Len(messages) = 4

\* ------------------------------------------------------------------- C12
\* C12: once startNewChat has run while a send is pending, no later step of
\* that send (open, fragment, completion, failure) changes the store.
C12_Original ==
    [][(call.cleared /\ StreamStep) => messages' = messages]_vars

\* ------------------------------------------------------------------- C13
\* C13: in every reachable state isLoading is true exactly when a send is
\* pending (its stream is being opened or is open and has neither completed
\* nor failed); isLoading becomes false only in the step that ends that
\* send, and startNewChat leaves it as it is.
C13_BusyIffPending ==
    /\ [](isLoading <=> pc # "idle")
    /\ [][(isLoading /\ ~isLoading') =>
            /\ pc # "idle"
            /\ pc' = "idle"
            /\ (OpenFail \/ StreamDone \/ StreamError)]_vars
    /\ [][lastOp' = "newChat" => isLoading' = isLoading]_vars

C13_Witness ==
    /\ lastOp = "newChat"
    /\ pc = "opening"
    /\ isLoading
    /\ messages = <<>>

\* ------------------------------------------------------------------- C14
\* C14: every turn of the prior-turns context of every request has at least
\* one content part.
C14_Original ==
    pc # "idle" =>
        \A i \in DOMAIN call.request.history :
            call.request.history[i].parts # <<>>

====
